---------------------------- MODULE Spec2Model ----------------------------
(***************************************************************************)
(* A model of feedgenerator/generator.py: the date formatters, the feed    *)
(* entry collection, the RSS 0.91 / RSS 2.0 / Atom 1.0 feed variants and   *)
(* what their write() hands to the XML writer.                             *)
(*                                                                         *)
(* Conventions.                                                            *)
(*  - A Python dict is a function whose DOMAIN is the set of keys present. *)
(*  - Keyword arguments are a function from the supplied keys to optional  *)
(*    values: None is <<>>, a value v is <<v>>.                            *)
(*  - A datetime is a record of its fields; tz is <<>> for a naive         *)
(*    datetime and <<m>> for an aware one whose utcoffset is m minutes.    *)
(*  - The timestamps stored in a feed (updated, pubdate) are instants: the *)
(*    instant t stands for the naive datetime DateOf(t).                   *)
(*  - Text is a TLA+ string; formatting builds the string the code builds. *)
(***************************************************************************)
EXTENDS Integers, Sequences, FiniteSets, TLC

VARIABLES
    dialect,    \* the class of the feed object: "Atom1", "Rss091", "Rss201" ("none": no feed)
    ctor,       \* the keyword arguments the feed was constructed with
    meta,       \* self.meta
    entries,    \* the feed itself (a list of entries)
    call,       \* the last call made and how it ended
    before,     \* the entry collection as it was when the last call began
    out         \* what the last call handed to the XML writer, in order

vars == <<dialect, ctor, meta, entries, call, before, out>>

(***************************************************************************)
(* Bounds of the model.                                                    *)
(***************************************************************************)
MaxEntries == 2     \* entries stored in a feed
MaxTime == 2        \* instants 1..MaxTime
MaxBulk == 2        \* entries passed to one add_entries call
MaxOffset == 56     \* |utcoffset| in quarter hours of the aware datetimes formatted

Times == 1..MaxTime

(***************************************************************************)
(* Python helpers.                                                         *)
(***************************************************************************)
None == <<>>
Some(v) == <<v>>

Has(d, k) == k \in DOMAIN d

\* The key is absent from the keyword arguments, or None.
Lacks(kwargs, k) == ~Has(kwargs, k) \/ kwargs[k] = None

\* d with d[k] = v (dict assignment).
Put(d, k, v) == [x \in DOMAIN d \cup {k} |-> IF x = k THEN v ELSE d[x]]

\* d without k (del d[k]).
Del(d, k) == [x \in DOMAIN d \ {k} |-> d[x]]

\* Removes None entries from (the first level of) a dictionary.
minimized(kw) == [k \in {x \in DOMAIN kw : kw[x] # None} |-> kw[k][1]]

Abs(n) == IF n < 0 THEN -n ELSE n

Digits == <<"0", "1", "2", "3", "4", "5", "6", "7", "8", "9">>

\* "%02d" % n, for 0 <= n.
Pad2(n) == IF n < 100 THEN Digits[(n \div 10) + 1] \o Digits[(n % 10) + 1]
           ELSE Digits[(n \div 100) + 1] \o Digits[((n \div 10) % 10) + 1] \o Digits[(n % 10) + 1]

\* "%+03d" % n: the sign always, then the digits zero-padded to two.
SignPad3(n) == (IF n < 0 THEN "-" ELSE "+") \o Pad2(Abs(n))

\* "%Y" of a four-digit year.
Pad4(n) == Pad2(n \div 100) \o Pad2(n % 100)

(***************************************************************************)
(* Date formatting.                                                        *)
(***************************************************************************)
months == <<"Jan", "Feb", "Mar", "Apr", "May", "Jun", "Jul", "Aug", "Sep", "Oct", "Nov", "Dec">>
days == <<"Mon", "Tue", "Wed", "Thu", "Fri", "Sat", "Sun">>

\* date.weekday(): Monday is 0.
weekday(date) ==
    LET t == <<0, 3, 2, 5, 0, 3, 5, 1, 4, 6, 2, 4>>
        y == IF date.month < 3 THEN date.year - 1 ELSE date.year
        sunday0 == (y + (y \div 4) - (y \div 100) + (y \div 400) + t[date.month] + date.day) % 7
    IN  (sunday0 + 6) % 7

is_aware(date) == date.tz # None

\* date.tzinfo.utcoffset(date) as a timedelta: its normalised days and seconds.
utcoffset(date) ==
    LET secs == date.tz[1] * 60
    IN  [days |-> secs \div 86400, seconds |-> secs % 86400]

\* The minutes east of UTC the formatters compute from the timedelta.
timezone(offset) == (offset.days * 24 * 60) + (offset.seconds \div 60)

\* divmod(timezone, 60): Python's floor division and its remainder.
divmod60(tzmin) == [hour |-> tzmin \div 60, minute |-> tzmin % 60]

rfc2822_date(date) ==
    LET dow == days[weekday(date) + 1]
        month == months[date.month]
        time_str == dow \o ", " \o Pad2(date.day) \o " " \o month \o " " \o Pad4(date.year)
                    \o " " \o Pad2(date.hour) \o ":" \o Pad2(date.minute) \o ":"
                    \o Pad2(date.second) \o " "
    IN  IF is_aware(date)
        THEN LET hm == divmod60(timezone(utcoffset(date)))
             IN  time_str \o SignPad3(hm.hour) \o Pad2(hm.minute)
        ELSE time_str \o "-0000"

rfc3339_date(date) ==
    LET time_str == Pad4(date.year) \o "-" \o Pad2(date.month) \o "-" \o Pad2(date.day)
                    \o "T" \o Pad2(date.hour) \o ":" \o Pad2(date.minute) \o ":"
                    \o Pad2(date.second)
    IN  IF is_aware(date)
        THEN LET hm == divmod60(timezone(utcoffset(date)))
             IN  time_str \o SignPad3(hm.hour) \o ":" \o Pad2(hm.minute)
        ELSE time_str \o "Z"

\* The datetimes the formatters are applied to.
Offsets == {15 * q : q \in (-MaxOffset)..MaxOffset}
Dates == [year : {1999, 2012}, month : {2, 12}, day : {1, 28}, hour : {0, 23},
          minute : {30}, second : {0}, tz : {None} \cup {Some(m) : m \in Offsets}]

\* The naive datetime the instant t stands for.
DateOf(t) == [year |-> 2012, month |-> 1, day |-> t, hour |-> 12, minute |-> 0,
              second |-> 0, tz |-> None]

NoFeed == /\ dialect = "none"
          /\ ctor = <<>>
          /\ meta = <<>>
          /\ entries = <<>>
          /\ before = <<>>
          /\ out = <<>>

\* A datetime is chosen; one of the formatters is then applied to it.
InitDate == /\ NoFeed
            /\ \E date \in Dates : call = [op |-> "none", date |-> date]

Rfc2822(date) ==
    /\ call.op = "none"
    /\ date = call.date
    /\ call' = [op |-> "rfc2822_date", date |-> date, ret |-> rfc2822_date(date)]
    /\ UNCHANGED <<dialect, ctor, meta, entries, before, out>>

Rfc3339(date) ==
    /\ call.op = "none"
    /\ date = call.date
    /\ call' = [op |-> "rfc3339_date", date |-> date, ret |-> rfc3339_date(date)]
    /\ UNCHANGED <<dialect, ctor, meta, entries, before, out>>

NextDate == \E date \in Dates : Rfc2822(date) \/ Rfc3339(date)

SpecDate == InitDate /\ [][NextDate]_vars

\* The last Len(suffix) characters of s are suffix.
EndsWith(s, suffix) ==
    /\ Len(s) >= Len(suffix)
    /\ SubSeq(s, Len(s) - Len(suffix) + 1, Len(s)) = suffix

\* C8: the zone suffix of a formatted date is -0000 (rfc2822_date) or Z
\* (rfc3339_date) for a naive date and, for an aware date whose offset is m
\* minutes, the sign of m, then |m| div 60 and |m| mod 60 as two digits each
\* (with a colon between them in rfc3339_date).
ZoneSuffixIsSignHoursMinutes ==
    call.op \in {"rfc2822_date", "rfc3339_date"} =>
        LET colon == IF call.op = "rfc3339_date" THEN ":" ELSE ""
            m == call.date.tz[1]
            expected == IF call.date.tz = None
                        THEN (IF call.op = "rfc3339_date" THEN "Z" ELSE "-0000")
                        ELSE (IF m >= 0 THEN "+" ELSE "-") \o Pad2(Abs(m) \div 60)
                             \o colon \o Pad2(Abs(m) % 60)
        IN  EndsWith(call.ret, expected)

(***************************************************************************)
(* How a call ends.                                                        *)
(***************************************************************************)
Returned(v) == [ok |-> TRUE, value |-> v]
Raised(e) == [ok |-> FALSE, err |-> e]

\* What a call record keeps of a result: whether it returned, and the exception.
Ended(r) == [ok |-> r.ok, err |-> IF r.ok THEN "" ELSE r.err]

\* d.get(k, default)
Get(d, k, default) == IF Has(d, k) THEN d[k] ELSE default

\* uuid.uuid4().urn: a random URN.
Urns == {"urn:uuid:1", "urn:uuid:2"}

(***************************************************************************)
(* Atom1Feed: construction and entry preparation.                          *)
(***************************************************************************)
\* not value.get('text'): a text construct with no text, or an empty one.
NoText(value) == ~Has(value, "text") \/ value.text = ""

\* for key in ('summary', 'content'): delete the key when it has no text.
DropEmptyText(d) ==
    [k \in {x \in DOMAIN d : ~(x \in {"summary", "content"} /\ NoText(d[x]))} |-> d[k]]

\* Every nested link has an href and every nested author a name.
NestedValid(d) ==
    /\ \A i \in DOMAIN Get(d, "links", <<>>) : Has(d.links[i], "href")
    /\ \A i \in DOMAIN Get(d, "authors", <<>>) : Has(d.authors[i], "name")

\* The singular link put before the links supplied.
PromoteLinkFirst(d, rel) ==
    IF Has(d, "link")
    THEN Del(Put(d, "links", <<[rel |-> rel, href |-> d.link]>> \o Get(d, "links", <<>>)), "link")
    ELSE d

\* A singular link is appended to links with the given rel, and removed.
PromoteLink(d, rel) ==
    IF Has(d, "link")
    THEN Del(Put(d, "links", Append(Get(d, "links", <<>>), [rel |-> rel, href |-> d.link])), "link")
    ELSE d

\* A singular author is appended to authors, and removed.
PromoteAuthor(d) ==
    IF Has(d, "author")
    THEN Del(Put(d, "authors", Append(Get(d, "authors", <<>>), [name |-> d.author])), "author")
    ELSE d

WithId(d, urn) == IF Has(d, "id") THEN d ELSE Put(d, "id", urn)

\* Atom1Feed.__init__ up to self.meta = kwargs.
AtomMeta(kwargs, urn) ==
    LET kw == DropEmptyText(minimized(kwargs))
    IN  IF ~Has(kw, "title") \/ ~NestedValid(kw)
        THEN Raised("AssertionError")
        ELSE Returned(PromoteAuthor(PromoteLink(WithId(kw, urn), "self")))

\* not self.meta.get('authors') is false: the feed declares an author.
FeedHasAuthorSingularKey(m) == Has(m, "author")
FeedHasAuthor(m) == Has(m, "authors") /\ m.authors # <<>>

\* entry.get('authors') or entry.get('author')
EntryHasAuthor(e) ==
    \/ Has(e, "authors") /\ e.authors # <<>>
    \/ Has(e, "author") /\ e.author # ""

\* The assertions of prepare_entry.
EntryRequiresTitleOnly(m, e) ==
    /\ NestedValid(e)
    /\ Has(e, "title")
    /\ ~FeedHasAuthor(m) => EntryHasAuthor(e)
EntryValid(m, e) ==
    /\ NestedValid(e)
    /\ Has(e, "title")
    /\ Has(e, "updated")
    /\ ~FeedHasAuthor(m) => EntryHasAuthor(e)

prepare_entry(m, entry, urn) ==
    LET e == DropEmptyText(minimized(entry))
    IN  IF ~EntryValid(m, e)
        THEN Raised("AssertionError")
        ELSE Returned(PromoteAuthor(PromoteLink(WithId(e, urn), "alternate")))

\* map(self.prepare_entry, entries): the list of all results, or the first
\* exception raised (Python 2's map builds the whole list before it returns).
MapPrepare(m, list, urns) ==
    LET r == [i \in DOMAIN list |-> prepare_entry(m, list[i], urns[i])]
    IN  IF \A i \in DOMAIN list : r[i].ok
        THEN Returned([i \in DOMAIN list |-> r[i].value])
        ELSE Raised("AssertionError")

\* The entries of list prepared before the first one that fails.
PreparedPrefix(m, list, urns) ==
    LET r == [i \in DOMAIN list |-> prepare_entry(m, list[i], urns[i])]
        bad == {i \in DOMAIN list : ~r[i].ok}
        n == IF bad = {} THEN Len(list) ELSE (CHOOSE i \in bad : \A j \in bad : i <= j) - 1
    IN  [i \in 1..n |-> r[i].value]

\* self.extend(map(self.prepare_entry, entries)): the collection afterwards.
ExtendLazily(self, m, list, urns) == self \o PreparedPrefix(m, list, urns)
ExtendMapped(self, m, list, urns) ==
    LET mapped == MapPrepare(m, list, urns)
    IN  IF mapped.ok THEN self \o mapped.value ELSE self

\* entry = self.prepare_entry(kwargs); self.append(entry)
AppendPrepared(self, m, kwargs, urn) ==
    LET r == prepare_entry(m, kwargs, urn)
    IN  IF r.ok THEN Append(self, r.value) ELSE self

\* Atom1Feed(entries, **kwargs)
AtomConstruct(list, kwargs, urn, urns) ==
    LET m == AtomMeta(kwargs, urn)
        mapped == MapPrepare(m.value, list, urns)
    IN  /\ dialect = "Atom1"
        /\ ctor = kwargs
        /\ before = <<>>
        /\ out = <<>>
        /\ IF ~m.ok
           THEN /\ meta = <<>>
                /\ entries = <<>>
                /\ call = [op |-> "__init__", list |-> list] @@ Ended(m)
           ELSE /\ meta = m.value
                /\ entries = ExtendMapped(<<>>, m.value, list, urns)
                /\ call = [op |-> "__init__", list |-> list] @@ Ended(mapped)

\* The feed object exists: its constructor returned.
Constructed == dialect # "none" /\ (call.op = "__init__" => call.ok)

\* feed.add_entry(**kwargs)
AtomAddEntry(kwargs, urn) ==
    /\ Constructed
    /\ dialect = "Atom1"
    /\ Len(AppendPrepared(entries, meta, kwargs, urn)) <= MaxEntries
    /\ entries' = AppendPrepared(entries, meta, kwargs, urn)
    /\ call' = [op |-> "add_entry", args |-> kwargs] @@ Ended(prepare_entry(meta, kwargs, urn))
    /\ before' = entries
    /\ out' = <<>>
    /\ UNCHANGED <<dialect, ctor, meta>>

\* feed.add_entries(*list)
AtomAddEntries(list, urns) ==
    /\ Constructed
    /\ dialect = "Atom1"
    /\ Len(ExtendMapped(entries, meta, list, urns)) <= MaxEntries
    /\ entries' = ExtendMapped(entries, meta, list, urns)
    /\ call' = [op |-> "add_entries", list |-> list] @@ Ended(MapPrepare(meta, list, urns))
    /\ before' = entries
    /\ out' = <<>>
    /\ UNCHANGED <<dialect, ctor, meta>>

(***************************************************************************)
(* The XML writer: what write() hands to it, in order.                     *)
(***************************************************************************)
StartDocument == [op |-> "startDocument", name |-> ""]
StartElement(name, attrs) == [op |-> "startElement", name |-> name, attrs |-> attrs]
EndElement(name) == [op |-> "endElement", name |-> name]
\* addQuickElement(name, contents, attrs): the element with its text, in one call.
QuickElement(name, contents, attrs) ==
    [op |-> "addQuickElement", name |-> name, contents |-> contents, attrs |-> attrs]

NoAttrs == <<>>

\* A piece of output: the writer calls made, and whether the code got through.
Emitted(evs) == [ev |-> evs, ok |-> TRUE, err |-> ""]
Aborted(evs, e) == [ev |-> evs, ok |-> FALSE, err |-> e]

RECURSIVE ChainFrom(_, _)
ChainFrom(parts, i) ==
    IF i > Len(parts) THEN Emitted(<<>>)
    ELSE IF ~parts[i].ok THEN parts[i]
    ELSE LET rest == ChainFrom(parts, i + 1)
         IN  [ev |-> parts[i].ev \o rest.ev, ok |-> rest.ok, err |-> rest.err]

\* Statements run one after the other: the output of each, up to and including
\* the first that raises.
Chain(parts) == ChainFrom(parts, 1)

\* for key, value in d.iteritems(): the keys of d, in the order the dict yields them
\* (fixed for a given dict; the model takes the order of `order`).
KeysInOrder(d, order) == SelectSeq(order, LAMBDA k : Has(d, k))

(***************************************************************************)
(* Atom1Feed: serialization.                                               *)
(***************************************************************************)
AtomNs == "http://www.w3.org/2005/Atom"

AtomKeyOrder == <<"id", "title", "subtitle", "language", "updated", "published", "authors",
                  "links", "summary", "content", "rights">>
SubKeyOrder == <<"name", "email", "uri", "href", "rel", "type", "text">>

AtomRootCases == [id |-> "element", title |-> "element", updated |-> "date",
                  authors |-> "plain", links |-> "self_closing", categories |-> "self_closing",
                  contributors |-> "plain", generator |-> "text_construct",
                  subtitle |-> "element", icon |-> "element", logo |-> "element",
                  rights |-> "text_construct"]

AtomEntryCases == [id |-> "element", title |-> "element", updated |-> "date",
                   published |-> "date", summary |-> "text_construct",
                   content |-> "text_construct", authors |-> "plain",
                   links |-> "self_closing", categories |-> "self_closing",
                   contributors |-> "plain", rights |-> "text_construct", source |-> "plain"]

AtomRootAttributes(m) ==
    IF Has(m, "language") THEN ("xmlns" :> AtomNs) @@ ("xml:lang" :> m.language)
    ELSE ("xmlns" :> AtomNs)

map_key(key) ==
    LET names == [links |-> "link", authors |-> "author", contributors |-> "contributor",
                  categories |-> "category"]
    IN  IF key \in DOMAIN names THEN names[key] ELSE key

\* datetime.isoformat() of a naive datetime with no microseconds.
isoformat(date) ==
    Pad4(date.year) \o "-" \o Pad2(date.month) \o "-" \o Pad2(date.day)
    \o "T" \o Pad2(date.hour) \o ":" \o Pad2(date.minute) \o ":" \o Pad2(date.second)

add_element(key, content) == Emitted(<<QuickElement(key, content, NoAttrs)>>)

add_date_element(key, content) == add_element(key, isoformat(DateOf(content)) \o "Z")

add_nested_element(key, elements, attributes) ==
    LET subkeys == KeysInOrder(elements, SubKeyOrder)
    IN  Emitted(<<StartElement(key, attributes)>>
                \o [i \in DOMAIN subkeys |-> QuickElement(subkeys[i], elements[subkeys[i]], NoAttrs)]
                \o <<EndElement(key)>>)

add_plain_elements(key, values) ==
    Chain([i \in DOMAIN values |-> add_nested_element(key, values[i], NoAttrs)])

add_self_closing_elements(key, values) ==
    Chain([i \in DOMAIN values |-> add_nested_element(key, <<>>, values[i])])

\* content, attributes = partition(value, ('text',), ('type',)); content['text']
add_text_construct_element(key, value) ==
    IF ~Has(value, "text") THEN Aborted(<<>>, "KeyError")
    ELSE Emitted(<<QuickElement(key, value.text,
                                [k \in DOMAIN value \cap {"type"} |-> value[k]])>>)

\* cases[key](handler, self.map_key(key), value)
AtomDispatch(cases, key, value) ==
    IF key \notin DOMAIN cases THEN Aborted(<<>>, "KeyError")
    ELSE CASE cases[key] = "element" -> add_element(map_key(key), value)
           [] cases[key] = "date" -> add_date_element(map_key(key), value)
           [] cases[key] = "plain" -> add_plain_elements(map_key(key), value)
           [] cases[key] = "self_closing" -> add_self_closing_elements(map_key(key), value)
           [] cases[key] = "text_construct" -> add_text_construct_element(map_key(key), value)

\* for key, value in d.iteritems(): cases[key](...)
AtomElements(cases, d) ==
    LET keys == KeysInOrder(d, AtomKeyOrder)
    IN  Chain([i \in DOMAIN keys |-> AtomDispatch(cases, keys[i], d[keys[i]])])

\* max(seq) of a non-empty sequence of instants.
Max(seq) == CHOOSE x \in {seq[i] : i \in DOMAIN seq} : \A i \in DOMAIN seq : seq[i] <= x

\* The feed-level updated written when the feed has none of its own.
SynthesizedUpdated(self, now) ==
    Max([i \in DOMAIN self |-> self[i].updated] \o <<now>>)

AtomAddRootElements(m, self, now) ==
    Chain(<<AtomElements(AtomRootCases, m),
            IF ~Has(m, "updated")
            THEN add_date_element("updated", SynthesizedUpdated(self, now))
            ELSE Emitted(<<>>)>>)

AtomAddEntryElements(entry) == AtomElements(AtomEntryCases, entry)

\* One entry of write_entries: startElement, the entry's elements, endElement.
WriteEntry(elements) ==
    Chain(<<Emitted(<<StartElement("entry", NoAttrs)>>), elements,
            Emitted(<<EndElement("entry")>>)>>)

AtomWriteEntries(self) ==
    Chain([i \in DOMAIN self |-> WriteEntry(AtomAddEntryElements(self[i]))])

AtomWrite(m, self, now) ==
    Chain(<<Emitted(<<StartDocument, StartElement("feed", AtomRootAttributes(m))>>),
            AtomAddRootElements(m, self, now),
            AtomWriteEntries(self),
            Emitted(<<EndElement("feed")>>)>>)

(***************************************************************************)
(* RssFeed: construction, add_entry and serialization.                     *)
(***************************************************************************)
\* force_unicode(s, strings_only=True) and iri_to_uri(s): None stays None, and
\* text that is already plain ASCII comes back as it is.
to_unicode(s) == s
iri_to_uri(s) == s

\* force_unicode(n) of a non-negative int: its decimal digits.
RECURSIVE force_unicode(_)
force_unicode(n) ==
    IF n < 10 THEN Digits[n + 1] ELSE force_unicode(n \div 10) \o Digits[(n % 10) + 1]

\* categories or (): an absent or empty sequence is the empty tuple.
CategoriesOrEmpty(x) == IF x = None THEN Some(<<>>) ELSE x

\* feed_guid or link: an absent or empty string gives way to the link.
GuidOrLink(guid, link) == IF guid = None \/ guid = Some("") THEN link ELSE guid

\* RssFeed.__init__: self.meta.
RssMeta(a) ==
    minimized([title |-> to_unicode(a.title),
               link |-> iri_to_uri(a.link),
               description |-> to_unicode(a.description),
               language |-> to_unicode(a.language),
               author_email |-> to_unicode(a.author_email),
               author_name |-> to_unicode(a.author_name),
               author_link |-> iri_to_uri(a.author_link),
               subtitle |-> to_unicode(a.subtitle),
               categories |-> CategoriesOrEmpty(a.categories),
               feed_url |-> iri_to_uri(a.feed_url),
               feed_copyright |-> to_unicode(a.feed_copyright),
               id |-> GuidOrLink(a.feed_guid, a.link),
               ttl |-> IF a.ttl # None THEN Some(force_unicode(a.ttl[1])) ELSE None])

\* RssFeed.add_entry: the entry appended.
RssEntry(a) ==
    minimized([title |-> to_unicode(a.title),
               link |-> iri_to_uri(a.link),
               description |-> to_unicode(a.description),
               author_email |-> to_unicode(a.author_email),
               author_name |-> to_unicode(a.author_name),
               author_link |-> iri_to_uri(a.author_link),
               pubdate |-> a.pubdate,
               comments |-> to_unicode(a.comments),
               unique_id |-> to_unicode(a.unique_id),
               enclosure |-> a.enclosure,
               categories |-> CategoriesOrEmpty(a.categories),
               entry_copyright |-> to_unicode(a.entry_copyright),
               ttl |-> IF a.ttl # None THEN Some(force_unicode(a.ttl[1])) ELSE None])

\* RssUserland091Feed(...) / Rss201rev2Feed(...)
RssConstruct(cls, a) ==
    /\ dialect = cls
    /\ ctor = a
    /\ meta = RssMeta(a)
    /\ entries = <<>>
    /\ call = [op |-> "__init__", list |-> <<>>, ok |-> TRUE, err |-> ""]
    /\ before = <<>>
    /\ out = <<>>

IsRss == dialect \in {"Rss091", "Rss201"}

\* feed.add_entry(title, link, description, ...)
RssAddEntry(a) ==
    /\ Constructed
    /\ IsRss
    /\ Len(entries) < MaxEntries
    /\ entries' = Append(entries, RssEntry(a))
    /\ call' = [op |-> "add_entry", args |-> a, ok |-> TRUE, err |-> ""]
    /\ before' = entries
    /\ out' = <<>>
    /\ UNCHANGED <<dialect, ctor, meta>>

\* feed.add_entries(*list): RssFeed has no prepare_entry, so evaluating
\* self.prepare_entry raises before anything is mapped or added.
RssAddEntries(list) ==
    /\ Constructed
    /\ IsRss
    /\ entries' = entries
    /\ call' = [op |-> "add_entries", list |-> list, ok |-> FALSE, err |-> "AttributeError"]
    /\ before' = entries
    /\ out' = <<>>
    /\ UNCHANGED <<dialect, ctor, meta>>

\* seq with x inserted before the first element greater than x.
RECURSIVE Insert(_, _)
Insert(seq, x) ==
    IF seq = <<>> THEN <<x>>
    ELSE IF x < Head(seq) THEN <<x>> \o seq
    ELSE <<Head(seq)>> \o Insert(Tail(seq), x)

\* list.sort() of a list of instants.
RECURSIVE Sorted(_)
Sorted(seq) == IF seq = <<>> THEN <<>> ELSE Insert(Sorted(Tail(seq)), Head(seq))

\* [entry['pubdate'] for entry in self if entry.has_key('pubdate')]
Pubdates(self) ==
    LET with == SelectSeq(self, LAMBDA e : Has(e, "pubdate"))
    IN  [i \in DOMAIN with |-> with[i].pubdate]

LastPubdate(self, now) ==
    LET updates == Pubdates(self)
    IN  IF Len(updates) > 0 THEN updates[Len(updates)] ELSE now
latest_post_date(self, now) ==
    LET updates == Pubdates(self)
    IN  IF Len(updates) > 0 THEN Sorted(updates)[Len(updates)] ELSE now

\* handler.addQuickElement(name, d[key]): a KeyError when d has no such key.
QuickOf(name, d, key) ==
    IF Has(d, key) THEN Emitted(<<QuickElement(name, d[key], NoAttrs)>>)
    ELSE Aborted(<<>>, "KeyError")

\* if d.has_key(key): handler.addQuickElement(name, d[key])
QuickIfHas(name, d, key) ==
    IF Has(d, key) THEN Emitted(<<QuickElement(name, d[key], NoAttrs)>>) ELSE Emitted(<<>>)

RssAttributes(cls) ==
    ("version" :> (IF cls = "Rss091" THEN "0.91" ELSE "2.0")) @@ ("xmlns:atom" :> AtomNs)

RssAddRootElements(m, self, now) ==
    Chain(<<QuickOf("title", m, "title"),
            QuickOf("link", m, "link"),
            QuickOf("description", m, "description"),
            IF Has(m, "feed_url")
            THEN Emitted(<<QuickElement("atom:link", None,
                                        ("rel" :> "self") @@ ("href" :> m.feed_url))>>)
            ELSE Emitted(<<>>),
            QuickIfHas("language", m, "language"),
            IF Has(m, "categories")
            THEN Emitted([i \in DOMAIN m.categories |->
                            QuickElement("category", m.categories[i], NoAttrs)])
            ELSE Aborted(<<>>, "KeyError"),
            QuickIfHas("copyright", m, "feed_copyright"),
            Emitted(<<QuickElement("lastBuildDate",
                                   rfc2822_date(DateOf(latest_post_date(self, now))), NoAttrs)>>),
            QuickIfHas("ttl", m, "ttl")>>)

\* if entry['description'] is not None: handler.addQuickElement(u"description", ...)
\* (a stored entry never holds None: add_entry removed the key, and the lookup raises).
DescriptionElement(entry) == QuickOf("description", entry, "description")

Rss091AddEntryElements(entry) ==
    Chain(<<QuickOf("title", entry, "title"),
            QuickOf("link", entry, "link"),
            DescriptionElement(entry)>>)

\* The author information of an RSS 2.0 entry.
AuthorElements(entry) ==
    IF Has(entry, "author_name") /\ Has(entry, "author_email")
    THEN Emitted(<<QuickElement("author",
                                entry.author_email \o " (" \o entry.author_name \o ")",
                                NoAttrs)>>)
    ELSE IF Has(entry, "author_email")
    THEN Emitted(<<QuickElement("author", entry.author_email, NoAttrs)>>)
    ELSE IF Has(entry, "author_name")
    THEN Emitted(<<QuickElement("dc:creator", entry.author_name,
                                ("xmlns:dc" :> "http://purl.org/dc/elements/1.1/"))>>)
    ELSE Emitted(<<>>)

Rss201AddEntryElements(entry) ==
    Chain(<<QuickOf("title", entry, "title"),
            QuickOf("link", entry, "link"),
            DescriptionElement(entry),
            AuthorElements(entry),
            IF Has(entry, "pubdate")
            THEN Emitted(<<QuickElement("pubDate", rfc2822_date(DateOf(entry.pubdate)), NoAttrs)>>)
            ELSE Emitted(<<>>),
            QuickIfHas("comments", entry, "comments"),
            QuickIfHas("guid", entry, "unique_id"),
            QuickIfHas("ttl", entry, "ttl"),
            IF Has(entry, "enclosure")
            THEN Emitted(<<QuickElement("enclosure", "",
                                        ("url" :> entry.enclosure.url)
                                        @@ ("length" :> entry.enclosure.length)
                                        @@ ("type" :> entry.enclosure.mime_type))>>)
            ELSE Emitted(<<>>),
            IF Has(entry, "categories")
            THEN Emitted([i \in DOMAIN entry.categories |->
                            QuickElement("category", entry.categories[i], NoAttrs)])
            ELSE Aborted(<<>>, "KeyError")>>)

RssWriteEntries(cls, self) ==
    Chain([i \in DOMAIN self |->
            WriteEntry(IF cls = "Rss091" THEN Rss091AddEntryElements(self[i])
                       ELSE Rss201AddEntryElements(self[i]))])

RssWrite(cls, m, self, now) ==
    Chain(<<Emitted(<<StartDocument, StartElement("rss", RssAttributes(cls)),
                      StartElement("channel", NoAttrs)>>),
            RssAddRootElements(m, self, now),
            RssWriteEntries(cls, self),
            Emitted(<<EndElement("channel"), EndElement("rss")>>)>>)

(***************************************************************************)
(* write, for every dialect.                                               *)
(***************************************************************************)
WriteOf(cls, m, self, now) ==
    IF cls = "Atom1" THEN AtomWrite(m, self, now) ELSE RssWrite(cls, m, self, now)

\* self sorted by pubdate, entries without one first.
SortedByPubdate(self) ==
    LET key(i) == Get(self[i], "pubdate", 0)
        rank(i) == Cardinality({j \in DOMAIN self : key(j) < key(i) \/ (key(j) = key(i) /\ j < i)})
    IN  [r \in DOMAIN self |-> self[CHOOSE i \in DOMAIN self : rank(i) = r - 1]]

\* The feed after latest_post_date: updates is a list of its own, built by the
\* comprehension, and updates.sort() reorders that list, not the feed.
SelfAfterLatestPostDate(self) == self

\* The feed after write. The Atom composition reads self.meta and the entries
\* (iteritems, partition and the list handed to max build new objects); the
\* RSS composition calls latest_post_date once the channel's title, link,
\* description and categories are written.
SelfAfterWrite(cls, m, self) ==
    IF cls # "Atom1" /\ Has(m, "title") /\ Has(m, "link") /\ Has(m, "description")
       /\ Has(m, "categories")
    THEN SelfAfterLatestPostDate(self)
    ELSE self

\* feed.write(outfile), called when datetime.utcnow() reads now (the wall clock
\* is not monotonic: any instant may be read at any call).
Write(now) ==
    /\ Constructed
    /\ out' = WriteOf(dialect, meta, entries, now).ev
    /\ call' = [op |-> "write", now |-> now] @@ Ended(WriteOf(dialect, meta, entries, now))
    /\ before' = entries
    /\ entries' = SelfAfterWrite(dialect, meta, entries)
    /\ UNCHANGED <<dialect, ctor, meta>>

(***************************************************************************)
(* Atom feeds: construction and addition (SpecAtomAdd).                    *)
(***************************************************************************)
\* The kwargs of the set with the key k left out where it would be None.
WithKeyOmitted(set, k) == {Del(kw, k) : kw \in {x \in set : x[k] = None}}

AuthorArgs == {None, Some(""), Some("Ann")}
AuthorsArgs == {None, Some(<<>>), Some(<<[name |-> "Bob"]>>)}

\* Feeds with and without a title, and with each form of author on its own.
AddFeedArgs ==
    [title : {None, Some("Feed")}, id : {Some("tag:feed")}, author : {None}, authors : {None}]
    \cup [title : {Some("Feed")}, id : {Some("tag:feed")}, author : AuthorArgs, authors : {None}]
    \cup [title : {Some("Feed")}, id : {Some("tag:feed")}, author : {None}, authors : AuthorsArgs]

\* Entries with or without a title and an updated timestamp, entries with every
\* combination of author and authors, and one whose nested author has no name.
AddEntryArgsFull ==
    [title : {None, Some("Post")}, updated : {None, Some(1)}, id : {Some("tag:post")},
     author : {None, Some("Ann")}, authors : {None}]
    \cup [title : {Some("Post")}, updated : {Some(1)}, id : {Some("tag:post")},
          author : AuthorArgs, authors : AuthorsArgs]
    \cup [title : {Some("Post")}, updated : {Some(1)}, id : {Some("tag:post")},
          author : {Some("Ann")}, authors : {Some(<<[email |-> "bob@example.org"]>>)}]
AddEntryArgs == AddEntryArgsFull \cup WithKeyOmitted(AddEntryArgsFull, "title")
                \cup WithKeyOmitted(AddEntryArgsFull, "updated")

\* An entry that needs the feed's author, and one with no updated timestamp.
BulkEntryArgs ==
    [title : {Some("Post")}, updated : {Some(1)}, id : {Some("tag:post")},
     author : {None}, authors : {None}]
    \cup [title : {Some("Post")}, updated : {None}, id : {Some("tag:post")},
          author : {Some("Ann")}, authors : {None}]

\* The URNs uuid4 may give an entry that needs one.
UrnsFor(kwargs) == IF Lacks(kwargs, "id") THEN Urns ELSE {"urn:uuid:1"}

\* The lists of at most n elements of set.
ListsUpTo(set, n) == UNION {[1..k -> set] : k \in 0..n}

\* A URN for each entry of the list.
UrnsForList(list) == {urns \in [DOMAIN list -> Urns] : \A i \in DOMAIN list : urns[i] \in UrnsFor(list[i])}

InitAtomAdd ==
    \E kwargs \in AddFeedArgs, list \in ListsUpTo(BulkEntryArgs, MaxBulk) :
        \E urn \in UrnsFor(kwargs), urns \in UrnsForList(list) :
            AtomConstruct(list, kwargs, urn, urns)

NextAtomAdd ==
    \/ \E kwargs \in AddEntryArgs : \E urn \in UrnsFor(kwargs) : AtomAddEntry(kwargs, urn)
    \/ \E list \in ListsUpTo(BulkEntryArgs, MaxBulk) :
        \E urns \in UrnsForList(list) : AtomAddEntries(list, urns)

SpecAtomAdd == InitAtomAdd /\ [][NextAtomAdd]_vars

AtomAddEntryCalled == dialect = "Atom1" /\ call.op = "add_entry"

\* C1: an Atom add_entry whose arguments lack title or updated (absent or
\* None) fails with a precondition violation and leaves the collection as it was.
AddWithoutTitleOrUpdatedFails ==
    (AtomAddEntryCalled /\ (Lacks(call.args, "title") \/ Lacks(call.args, "updated")))
        => (~call.ok /\ call.err = "AssertionError" /\ entries = before)

\* C1 happens: a feed that holds an entry has refused one that has a title and
\* an author but no updated timestamp.
AddWithoutUpdatedRefused ==
    /\ AtomAddEntryCalled
    /\ ~Lacks(call.args, "title")
    /\ Lacks(call.args, "updated")
    /\ call.args.author = Some("Ann")
    /\ ~call.ok
    /\ Len(entries) > 0

\* Apart from the author rule the arguments make a valid entry.
OtherwiseValid(kwargs) ==
    /\ ~Lacks(kwargs, "title")
    /\ ~Lacks(kwargs, "updated")
    /\ Lacks(kwargs, "authors") \/ \A i \in DOMAIN kwargs.authors[1] : Has(kwargs.authors[1][i], "name")

SuppliesAuthors(kwargs) == ~Lacks(kwargs, "authors") /\ kwargs.authors # Some(<<>>)
SuppliesAuthorKey(kwargs) == ~Lacks(kwargs, "author") \/ SuppliesAuthors(kwargs)
SuppliesAuthorName(kwargs) ==
    \/ ~Lacks(kwargs, "author") /\ kwargs.author # Some("")
    \/ SuppliesAuthors(kwargs)

\* C2 as stated: an otherwise valid entry is accepted iff the feed was
\* constructed with an author (singular or plural) or the entry supplies
\* 'author' or a non-empty 'authors'.
AuthorRuleByKey ==
    (AtomAddEntryCalled /\ OtherwiseValid(call.args))
        => (call.ok <=> (SuppliesAuthorKey(ctor) \/ SuppliesAuthorKey(call.args)))

\* C2 as amended: an otherwise valid entry is accepted, and the collection
\* grows by that one entry, iff the feed was constructed with an 'author' (any
\* value but None) or a non-empty 'authors', or the entry supplies a non-empty
\* 'author' or a non-empty 'authors'; otherwise the call fails with a
\* precondition violation and the collection is unchanged.
AuthorRule ==
    (AtomAddEntryCalled /\ OtherwiseValid(call.args))
        => /\ call.ok <=> (SuppliesAuthorKey(ctor) \/ SuppliesAuthorName(call.args))
           /\ call.ok => Len(entries) = Len(before) + 1 /\ SubSeq(entries, 1, Len(before)) = before
           /\ ~call.ok => call.err = "AssertionError" /\ entries = before

\* C2 happens: a feed constructed with an author has accepted an entry that
\* names none.
AuthorlessEntryAcceptedByFeedAuthor ==
    /\ AtomAddEntryCalled
    /\ OtherwiseValid(call.args)
    /\ ~SuppliesAuthorKey(call.args)
    /\ SuppliesAuthorKey(ctor)
    /\ call.ok
    /\ Len(entries) = Len(before) + 1

\* The arguments make an entry that prepare_entry accepts for this feed.
Acceptable(m, kwargs) == EntryValid(m, DropEmptyText(minimized(kwargs)))

BulkCalled == dialect = "Atom1" /\ call.op \in {"add_entries", "__init__"} /\ meta # <<>>

\* C6: when one entry of an Atom add_entries call, or of the constructor's
\* initial entries, violates a precondition, the call fails and the collection
\* is as it was: no entry of the call is added.
BulkAddIsAllOrNothing ==
    (BulkCalled /\ \E i \in DOMAIN call.list : ~Acceptable(meta, call.list[i]))
        => (~call.ok /\ entries = before)

\* C6 happens: an add_entries call whose first entry is valid and whose second
\* is not has failed on a feed that holds an entry.
BulkAddRefusedAfterValidEntry ==
    /\ dialect = "Atom1"
    /\ call.op = "add_entries"
    /\ Len(call.list) = 2
    /\ Acceptable(meta, call.list[1])
    /\ ~Acceptable(meta, call.list[2])
    /\ ~call.ok
    /\ Len(entries) > 0

(***************************************************************************)
(* What a write produced, read back from the writer calls.                 *)
(***************************************************************************)
IsEntryStart(ev) == ev.op = "startElement" /\ ev.name = "entry"
IsEntryEnd(ev) == ev.op = "endElement" /\ ev.name = "entry"

\* The positions in evs at which an entry element starts, and at which one ends.
EntryStarts(evs) == SelectSeq([i \in DOMAIN evs |-> i], LAMBDA i : IsEntryStart(evs[i]))
EntryEnds(evs) == SelectSeq([i \in DOMAIN evs |-> i], LAMBDA i : IsEntryEnd(evs[i]))

\* What was written for the k-th entry element: the events after its start, up
\* to the next entry's start or the end of the output.
EntrySegment(evs, k) ==
    LET starts == EntryStarts(evs)
    IN  IF k > Len(starts) THEN <<>>
        ELSE SubSeq(evs, starts[k] + 1,
                    IF k < Len(starts) THEN starts[k + 1] - 1 ELSE Len(evs))

\* What was written before the first entry element: the feed's own elements.
RootSegment(evs) ==
    LET starts == EntryStarts(evs)
    IN  IF starts = <<>> THEN evs ELSE SubSeq(evs, 1, starts[1] - 1)

\* The elements of the given names among evs, as <<name, contents>> pairs.
QuickNamed(evs, names) ==
    LET hits == SelectSeq(evs, LAMBDA ev : ev.op = "addQuickElement" /\ ev.name \in names)
    IN  [i \in DOMAIN hits |-> <<hits[i].name, hits[i].contents>>]

\* The closing root element was written last.
RootClosed(evs) ==
    /\ evs # <<>>
    /\ evs[Len(evs)] = EndElement(IF dialect = "Atom1" THEN "feed" ELSE "rss")

WriteCalled == call.op = "write"

(***************************************************************************)
(* Atom feeds: serialization (SpecAtomWrite).                              *)
(***************************************************************************)
NoTextRights == [type |-> "html"]

WriteFeedArgs == [title : {Some("Feed")}, id : {Some("tag:feed")}, author : {Some("Ann")},
                  updated : {None, Some(1)}, language : {None, Some("en")},
                  rights : {None, Some([text |-> "CC0"])}]

\* Entries in two titles at every instant, with and without a rights construct
\* that has no text, one with a summary and a link, one with no id of its own.
WriteEntryArgs ==
    [title : {Some("A"), Some("B")}, updated : {Some(t) : t \in Times}, id : {Some("tag:post")},
     rights : {None, Some(NoTextRights)}, summary : {None}, link : {None}]
    \cup [title : {Some("A")}, updated : {Some(1)}, id : {None, Some("tag:post")},
          rights : {None}, summary : {Some([text |-> "Sum", type |-> "html"])},
          link : {Some("http://example.org/a")}]

InitAtomWrite ==
    \E kwargs \in WriteFeedArgs : \E urn \in UrnsFor(kwargs) :
        AtomConstruct(<<>>, kwargs, urn, <<>>)

NextAtomWrite ==
    \/ \E kwargs \in WriteEntryArgs : \E urn \in UrnsFor(kwargs) : AtomAddEntry(kwargs, urn)
    \/ \E now \in Times : Write(now)

SpecAtomWrite == InitAtomWrite /\ [][NextAtomWrite]_vars

\* C4: a write of a feed whose construction and additions all succeeded runs to
\* completion: it does not raise, and the closing root element is written.
WriteAlwaysCompletes ==
    WriteCalled => (call.ok /\ RootClosed(out))

\* max of a non-empty set of instants.
Latest(set) == CHOOSE x \in set : \A y \in set : y <= x

\* C9 (for the writes that run to completion): an Atom feed constructed without
\* 'updated' is written with exactly one feed-level updated element, holding the
\* latest of the entries' updated timestamps when there is an entry and the
\* instant of the write when there is none; a feed constructed with 'updated'
\* is written with that value.
FeedUpdatedIsLatestEntryUpdated ==
    (WriteCalled /\ dialect = "Atom1" /\ call.ok) =>
        LET expected == IF Has(meta, "updated") THEN meta.updated
                        ELSE IF entries = <<>> THEN call.now
                        ELSE Latest({entries[i].updated : i \in DOMAIN entries})
        IN  QuickNamed(RootSegment(out), {"updated"})
                = <<<<"updated", isoformat(DateOf(expected)) \o "Z">>>>

(***************************************************************************)
(* RSS feeds (SpecRss).                                                    *)
(***************************************************************************)
RssFeedArgs ==
    [title : {Some("Feed")}, link : {Some("http://example.org/")}, description : {Some("About")},
     language : {None}, author_email : {None}, author_name : {None}, author_link : {None},
     subtitle : {None}, categories : {None}, feed_url : {None}, feed_copyright : {None},
     feed_guid : {None}, ttl : {None}]
    \cup [title : {Some("Feed")}, link : {Some("http://example.org/")}, description : {Some("About")},
          language : {Some("en")}, author_email : {None}, author_name : {None},
          author_link : {None}, subtitle : {None}, categories : {Some(<<"a", "b">>)},
          feed_url : {Some("http://example.org/rss")}, feed_copyright : {Some("CC0")},
          feed_guid : {None}, ttl : {Some(60)}]

RssEntryArgsOf(titles, descriptions, emails, names, pubdates) ==
    [title : titles, link : {Some("http://example.org/post")}, description : descriptions,
     author_email : emails, author_name : names, author_link : {None}, pubdate : pubdates,
     comments : {None}, unique_id : {None}, enclosure : {None}, categories : {None},
     entry_copyright : {None}, ttl : {None}]

AuthorEmails == {None, Some("ann@example.org")}
AuthorNames == {None, Some("Ann")}

\* Entries in two titles, an entry without a description, entries with every
\* combination of author name and email, and entries published at every instant.
RssEntryArgs ==
    RssEntryArgsOf({Some("A"), Some("B")}, {Some("Text")}, {None}, {None}, {None})
    \cup RssEntryArgsOf({Some("A")}, {None}, {None}, {None}, {None})
    \cup RssEntryArgsOf({Some("A")}, {Some("Text")}, AuthorEmails, AuthorNames, {None})
    \cup RssEntryArgsOf({Some("A")}, {None}, {Some("ann@example.org")}, {Some("Ann")}, {None})
    \cup RssEntryArgsOf({Some("A")}, {Some("Text")}, {None}, {None}, {Some(t) : t \in Times})

RssBulkArgs == RssEntryArgsOf({Some("A")}, {Some("Text")}, {None}, {None}, {None})

InitRss == \E cls \in {"Rss091", "Rss201"}, a \in RssFeedArgs : RssConstruct(cls, a)

NextRss ==
    \/ \E a \in RssEntryArgs : RssAddEntry(a)
    \/ \E list \in ListsUpTo(RssBulkArgs, MaxBulk) : RssAddEntries(list)
    \/ \E now \in Times : Write(now)

SpecRss == InitRss /\ [][NextRss]_vars

\* The titles written inside the k-th entry element.
TitlesOfEntry(evs, k) ==
    LET hits == QuickNamed(EntrySegment(evs, k), {"title"})
    IN  [i \in DOMAIN hits |-> hits[i][2]]

\* One entry element was written per stored entry, the k-th that of the k-th
\* entry added.
EveryEntryInOrder ==
    /\ Len(EntryStarts(out)) = Len(entries)
    /\ Len(EntryEnds(out)) = Len(entries)
    /\ \A k \in DOMAIN entries : TitlesOfEntry(out, k) = <<entries[k].title>>

\* C3: a write emits exactly one entry element per stored entry, and the k-th
\* entry element is that of the k-th entry added.
WriteEmitsEveryEntryInOrder == WriteCalled => EveryEntryInOrder

\* What remains of the insertion-order rule: it holds of every write that runs
\* to completion.
CompleteWriteEmitsEveryEntryInOrder == (WriteCalled /\ call.ok) => EveryEntryInOrder

\* The collection after add_entry is called once for each element of list.
RECURSIVE AddedOneByOne(_, _, _, _)
AddedOneByOne(cls, m, self, list) ==
    IF list = <<>> THEN self
    ELSE AddedOneByOne(cls, m,
                       IF cls = "Atom1" THEN AppendPrepared(self, m, Head(list), "urn:uuid:1")
                       ELSE Append(self, RssEntry(Head(list))),
                       Tail(list))

\* The entries without their ids.
WithoutIds(self) == [i \in DOMAIN self |-> Del(self[i], "id")]

\* C5: after add_entries the collection is what calling add_entry once per
\* entry, in the same order, makes of it (synthesized ids aside).
AddEntriesIsAddEntryForEach ==
    call.op = "add_entries"
        => WithoutIds(entries) = WithoutIds(AddedOneByOne(dialect, meta, before, call.list))

\* The author elements the RSS 2.0 tie-break chooses for an entry.
AuthorChoice(entry) ==
    IF Has(entry, "author_name") /\ Has(entry, "author_email")
    THEN <<<<"author", entry.author_email \o " (" \o entry.author_name \o ")">>>>
    ELSE IF Has(entry, "author_email") THEN <<<<"author", entry.author_email>>>>
    ELSE IF Has(entry, "author_name") THEN <<<<"dc:creator", entry.author_name>>>>
    ELSE <<>>

\* C7: for every entry of an RSS 2.0 feed, write emits the author element the
\* tie-break chooses (author "email (name)", author email, dc:creator name, or
\* none) and no other author or dc:creator element.
AuthorElementFollowsTieBreak ==
    (WriteCalled /\ dialect = "Rss201") =>
        \A k \in DOMAIN entries :
            QuickNamed(EntrySegment(out, k), {"author", "dc:creator"}) = AuthorChoice(entries[k])

\* What remains of the tie-break rule: it holds of every write that runs to
\* completion, and an entry never gets an author element the rule does not choose.
CompleteWriteFollowsTieBreak ==
    (WriteCalled /\ dialect = "Rss201") =>
        \A k \in DOMAIN entries :
            LET written == QuickNamed(EntrySegment(out, k), {"author", "dc:creator"})
            IN  /\ written \in {<<>>, AuthorChoice(entries[k])}
                /\ call.ok => written = AuthorChoice(entries[k])

\* C10: every RSS write emits exactly one lastBuildDate element: the latest
\* pubdate of the entries stored at that time that carry one, or the instant
\* of the write when none does.
LastBuildDateIsLatestPubdate ==
    (WriteCalled /\ IsRss) =>
        LET dated == {i \in DOMAIN entries : Has(entries[i], "pubdate")}
            expected == IF dated = {} THEN call.now
                        ELSE Latest({entries[i].pubdate : i \in dated})
        IN  QuickNamed(out, {"lastBuildDate"})
                = <<<<"lastBuildDate", rfc2822_date(DateOf(expected))>>>>

\* C10 happens: a feed whose first entry was published after its second has
\* been written, at an instant that is not the first entry's.
WrittenWithEarlierPubdateLast ==
    /\ WriteCalled
    /\ IsRss
    /\ Len(entries) = 2
    /\ Has(entries[1], "pubdate") /\ Has(entries[2], "pubdate")
    /\ entries[1].pubdate > entries[2].pubdate
    /\ call.now # entries[1].pubdate

\* The title, link and description elements an RSS entry is to be written with.
TitleLinkDescription(entry) ==
    <<<<"title", entry.title>>, <<"link", entry.link>>>>
    \o (IF Has(entry, "description") THEN <<<<"description", entry.description>>>> ELSE <<>>)

\* C11: a write of an RSS feed completes, and for every stored entry it emits
\* the entry's title and link elements and then exactly one description element
\* when the entry was added with a description, and none when it was added
\* with a null description.
DescriptionOnlyIfPresent ==
    (WriteCalled /\ IsRss) =>
        /\ call.ok
        /\ \A k \in DOMAIN entries :
               QuickNamed(EntrySegment(out, k), {"title", "link", "description"})
                   = TitleLinkDescription(entries[k])

\* The attributes of the root 'feed' elements that were opened.
FeedRootAttributes(evs) ==
    LET roots == SelectSeq(evs, LAMBDA ev : ev.op = "startElement" /\ ev.name = "feed")
    IN  [i \in DOMAIN roots |-> roots[i].attrs]

\* C12: a write of an Atom feed constructed with a language completes, and its
\* root element carries xmlns (the Atom namespace) and xml:lang (the language);
\* the root element of a feed constructed without a language carries xmlns only.
RootCarriesNamespaceAndLanguage ==
    (WriteCalled /\ dialect = "Atom1") =>
        IF Has(ctor, "language") /\ ctor.language # None
        THEN /\ call.ok
             /\ RootClosed(out)
             /\ FeedRootAttributes(out)
                    = <<("xmlns" :> "http://www.w3.org/2005/Atom") @@ ("xml:lang" :> ctor.language[1])>>
        ELSE FeedRootAttributes(out) = <<("xmlns" :> "http://www.w3.org/2005/Atom")>>

\* What remains of the root attribute rule: the root element that is opened
\* carries the attributes claimed, whether or not the write goes on to complete.
RootOpenedWithNamespaceAndLanguage ==
    (WriteCalled /\ dialect = "Atom1") =>
        FeedRootAttributes(out)
            = <<IF Has(meta, "language")
                THEN ("xmlns" :> "http://www.w3.org/2005/Atom") @@ ("xml:lang" :> meta.language)
                ELSE ("xmlns" :> "http://www.w3.org/2005/Atom")>>

\* A write of an Atom feed constructed with a language never completes.
LanguageFeedWriteFails ==
    (WriteCalled /\ dialect = "Atom1" /\ Has(meta, "language")) => (~call.ok /\ call.err = "KeyError")

(***************************************************************************)
(* Atom feeds: promotion of the singular link and author (SpecAtomPromote). *)
(***************************************************************************)
SuppliedLinks == <<[href |-> "http://example.org/1"],
                   [href |-> "http://example.org/2", rel |-> "related"]>>
SuppliedAuthors == <<[name |-> "Bob"], [name |-> "Cy", email |-> "cy@example.org"]>>

\* Feeds with every combination of link and links, and of author and authors.
PromoteFeedArgs ==
    [title : {Some("Feed")}, id : {Some("tag:feed")},
     link : {None, Some("http://example.org/feed")}, links : {None, Some(SuppliedLinks)},
     author : {Some("Ann")}, authors : {None}]
    \cup [title : {Some("Feed")}, id : {Some("tag:feed")}, link : {None}, links : {None},
          author : {None, Some("Ann")}, authors : {None, Some(SuppliedAuthors)}]

\* Entries with every combination of link and links, and of author and
\* authors, one with an empty author, one with an empty list of links and one
\* whose nested link has no href.
PromoteEntryArgs ==
    [title : {Some("Post")}, updated : {Some(1)}, id : {Some("tag:post")},
     link : {None, Some("http://example.org/post")}, links : {None, Some(SuppliedLinks)},
     author : {None}, authors : {None}]
    \cup [title : {Some("Post")}, updated : {Some(1)}, id : {Some("tag:post")},
          link : {None}, links : {None},
          author : {None, Some(""), Some("Ann")}, authors : {None, Some(SuppliedAuthors)}]
    \cup [title : {Some("Post")}, updated : {Some(1)}, id : {Some("tag:post")},
          link : {Some("http://example.org/post")},
          links : {Some(<<>>), Some(<<[rel |-> "related"]>>)},
          author : {Some("Ann")}, authors : {Some(SuppliedAuthors)}]

InitAtomPromote ==
    \E kwargs \in PromoteFeedArgs : \E urn \in UrnsFor(kwargs) :
        AtomConstruct(<<>>, kwargs, urn, <<>>)

NextAtomPromote ==
    \E kwargs \in PromoteEntryArgs : \E urn \in UrnsFor(kwargs) : AtomAddEntry(kwargs, urn)

SpecAtomPromote == InitAtomPromote /\ [][NextAtomPromote]_vars

\* The caller supplied the key k with a value other than None.
Supplied(kwargs, k) == Has(kwargs, k) /\ kwargs[k] # None

\* The plural list the caller supplied under k, empty when there is none.
SuppliedList(kwargs, k) == IF Supplied(kwargs, k) THEN kwargs[k][1] ELSE <<>>

\* d, stored for the arguments kwargs, holds a supplied singular link as the
\* last of its links, after the links supplied in their order, with the given
\* rel, and a supplied singular author as the last of its authors.
HoldsPromoted(kwargs, d, rel) ==
    /\ Supplied(kwargs, "link") =>
           /\ Has(d, "links")
           /\ d.links = SuppliedList(kwargs, "links")
                            \o <<[href |-> kwargs.link[1], rel |-> rel]>>
    /\ Supplied(kwargs, "author") =>
           /\ Has(d, "authors")
           /\ d.authors = SuppliedList(kwargs, "authors") \o <<[name |-> kwargs.author[1]]>>

\* C13: the metadata of a constructed Atom feed and every stored entry hold
\* neither the key 'link' nor the key 'author'; a singular link the feed was
\* constructed with is the last of the feed's links, with rel 'self', and one
\* an entry was added with is the last of that entry's links, with rel
\* 'alternate', after the links supplied, in their order; a singular author is
\* the last of the authors, as a record with that name.
SingularKeysArePromoted ==
    (dialect = "Atom1" /\ Constructed) =>
        /\ ~Has(meta, "link") /\ ~Has(meta, "author")
        /\ \A i \in DOMAIN entries : ~Has(entries[i], "link") /\ ~Has(entries[i], "author")
        /\ HoldsPromoted(ctor, meta, "self")
        /\ (call.op = "add_entry" /\ call.ok) =>
               HoldsPromoted(call.args, entries[Len(entries)], "alternate")

\* C13 happens: an entry supplied with links and a singular link has been added
\* to a feed constructed with links and a singular link, after an entry
\* supplied with authors and a singular author.
PromotedAfterSuppliedLinks ==
    /\ dialect = "Atom1"
    /\ Supplied(ctor, "link") /\ SuppliedList(ctor, "links") # <<>>
    /\ call.op = "add_entry" /\ call.ok
    /\ Supplied(call.args, "link") /\ SuppliedList(call.args, "links") # <<>>
    /\ Len(entries) = 2
    /\ Len(Get(entries[1], "authors", <<>>)) = 3

(***************************************************************************)
(* Feeds of every dialect, written between additions (SpecFeeds).          *)
(***************************************************************************)
\* feed.latest_post_date(), called when the clock reads now.
LatestPostDate(now) ==
    /\ Constructed
    /\ call' = [op |-> "latest_post_date", now |-> now, ok |-> TRUE, err |-> "",
                ret |-> latest_post_date(entries, now)]
    /\ before' = entries
    /\ out' = <<>>
    /\ entries' = SelfAfterLatestPostDate(entries)
    /\ UNCHANGED <<dialect, ctor, meta>>

FramedAtomFeedArgs == [title : {Some("Feed")}, id : {Some("tag:feed")}, author : {Some("Ann")},
                       updated : {None}, language : {None, Some("en")}, rights : {None}]

\* Atom entries updated at every instant, and one with a rights construct that
\* has no text.
FramedAtomEntryArgs ==
    [title : {Some("A")}, updated : {Some(t) : t \in Times}, id : {Some("tag:post")},
     rights : {None}, summary : {None}, link : {None}]
    \cup [title : {Some("B")}, updated : {Some(1)}, id : {Some("tag:post")},
          rights : {Some(NoTextRights)}, summary : {None}, link : {None}]

\* RSS entries published at every instant, one with no pubdate and one with
\* no description.
FramedRssEntryArgs ==
    RssEntryArgsOf({Some("A")}, {Some("Text")}, {None}, {None}, {None} \cup {Some(t) : t \in Times})
    \cup RssEntryArgsOf({Some("B")}, {None}, {None}, {None}, {None})

InitFeeds ==
    \/ \E cls \in {"Rss091", "Rss201"}, a \in RssFeedArgs : RssConstruct(cls, a)
    \/ \E kwargs \in FramedAtomFeedArgs : \E urn \in UrnsFor(kwargs) :
           AtomConstruct(<<>>, kwargs, urn, <<>>)

NextFeeds ==
    \/ \E a \in FramedRssEntryArgs : RssAddEntry(a)
    \/ \E kwargs \in FramedAtomEntryArgs : \E urn \in UrnsFor(kwargs) : AtomAddEntry(kwargs, urn)
    \/ \E now \in Times : Write(now)
    \/ \E now \in Times : LatestPostDate(now)

SpecFeeds == InitFeeds /\ [][NextFeeds]_vars

\* C14: a write (and so write_string), of a feed of any dialect and whether or
\* not it completes, and a call of latest_post_date leave the feed as it was:
\* the same metadata and the same entries, in the same order and with the same
\* fields; so the collection that additions build does not depend on the
\* writes made between them.
WriteLeavesFeedUnchanged ==
    [][call'.op \in {"write", "latest_post_date"} => (meta' = meta /\ entries' = entries /\ ctor' = ctor
                                /\ dialect' = dialect)]_vars

\* C14 happens: an RSS feed whose first entry was published after its second
\* has been written to completion, and holds its entries as they were added.
WrittenOutOfDateOrder ==
    /\ WriteCalled /\ call.ok
    /\ IsRss
    /\ Len(entries) = 2
    /\ Has(entries[1], "pubdate") /\ Has(entries[2], "pubdate")
    /\ entries[1].pubdate > entries[2].pubdate
    /\ entries = before

=============================================================================
